---- MODULE Spec2Model ----
(***************************************************************************)
(* A model of the terminal text editor: the grapheme Line model            *)
(* (src/src/view.rs), the document Buffer (src/src/editor/buffer.rs), the  *)
(* caret / scroll / edit handlers of Terminal (src/src/view/terminal.rs)   *)
(* and the session loop of Editor (src/src/editor.rs).                     *)
(*                                                                         *)
(* Characters are one-element strings.  Besides ASCII characters the       *)
(* alphabet has two named stand-ins for non-ASCII code points, WIDE (an    *)
(* East Asian wide character, unicode width 2) and MARK (a combining       *)
(* mark, unicode width 0, Grapheme_Extend).  A text is a sequence of       *)
(* characters, a grapheme is a non-empty sequence of characters.           *)
(***************************************************************************)
EXTENDS Integers, Sequences, FiniteSets, TLC

VARIABLES
    buffer,          \* Terminal.buffer.lines : sequence of Lines
    needs_render,    \* Terminal.needs_render (the dirty flag)
    size,            \* Terminal.size : [width, height]
    location,        \* Terminal.location : the caret [line_index, grapheme_index]
    scroll_offset,   \* Terminal.scroll_offset : [line_index, grapheme_index]
    should_quit,     \* Editor.should_quit
    pc,              \* position of the session: in Editor::run "refresh", "read"; a
                     \* handler "panicked"; the process is over with run returning Ok
                     \* ("exited") or an io::Error ("failed"), or in a panic ("crashed")
    lifecycle,       \* history: the calls of View::terminate and of the previous panic hook
    scrolled,        \* history: scroll_location_into_view has run since location or size last changed
    harness          \* history of the function-level specifications (constant under Spec)

vars == <<buffer, needs_render, size, location, scroll_offset, should_quit, pc,
          lifecycle, scrolled, harness>>

(***************************************************************************)
(* Bounds of the model.                                                    *)
(***************************************************************************)
MaxLines == 2      \* Enter is taken only while the buffer has fewer lines
MaxChars == 3      \* a character is typed only while the buffer holds fewer characters
MaxSize == 1       \* viewport widths and heights range over 0..MaxSize
MaxWrapLeft == 1   \* Left moves followed below a caret column wrapped to usize::MAX
MaxCoord == 3      \* SpecScroll: carets, offsets and viewport sizes range over 0..MaxCoord
MaxDownLines == 4  \* SpecDown: buffers of 1..MaxDownLines lines (and of 50)
MaxDownHeight == 3 \* SpecDown: viewport heights 1..MaxDownHeight (and 10)
MaxTextLen == 3    \* SpecInsertDelete, SpecLine: texts of up to MaxTextLen characters
MaxCaretLines == 3 \* SpecCaret: buffers of 0..MaxCaretLines lines
MaxCaretHeight == 2 \* SpecCaret: viewport heights 0..MaxCaretHeight
MaxWindow == 3     \* SpecWindow: window edges range over 0..MaxWindow

(***************************************************************************)
(* usize arithmetic.  The model's usize is UsizeBits wide; every index the *)
(* bounds allow is far below UsizeMax, so only the wrap of 0 - 1 and the   *)
(* saturating operations on a wrapped value ever come near it.             *)
(***************************************************************************)
UsizeBits == 30
UsizeMax == (2 ^ UsizeBits) - 1

saturating_add(a, b) == IF a > UsizeMax - b THEN UsizeMax ELSE a + b
saturating_sub(a, b) == IF a < b THEN 0 ELSE a - b

Max(a, b) == IF a > b THEN a ELSE b

(***************************************************************************)
(* Characters.                                                             *)
(***************************************************************************)
WIDE == "W+"       \* stands for a wide character such as U+4E2D
MARK == "M+"       \* stands for a combining mark such as U+0301
TAB == "\t"
NEWLINE == "\n"
BLANK_GLYPH == "U+2423"        \* the visible blank the code substitutes for whitespace
PLACEHOLDER_GLYPH == "U+25AF"  \* the placeholder the code substitutes for a control character
ELLIPSIS == "U+22EF"           \* the marker of a clipped unit
NoChar == "None"               \* Option<char>::None

IsControl(c) == c \in {TAB, NEWLINE}
IsExtend(c) == c = MARK
IsWhitespace(c) == c \in {" ", TAB, NEWLINE}

\* UnicodeWidthChar of one character, control characters counted as 0
CharWidth(c) ==
    IF c = WIDE THEN 2
    ELSE IF c = MARK \/ IsControl(c) THEN 0
    ELSE 1

RECURSIVE Concat(_)
Concat(seqs) == IF seqs = <<>> THEN <<>> ELSE Head(seqs) \o Concat(Tail(seqs))

RECURSIVE SumSeq(_)
SumSeq(ns) == IF ns = <<>> THEN 0 ELSE Head(ns) + SumSeq(Tail(ns))

(***************************************************************************)
(* Grapheme Line model (view.rs).                                          *)
(***************************************************************************)
\* str::graphemes(true): a cluster boundary lies before every character
\* except before an extending character that follows a non-control one.
BreakBefore(text, i) ==
    \/ i = 1
    \/ ~IsExtend(text[i])
    \/ IsControl(text[i - 1])

RECURSIVE graphemes(_)
graphemes(text) ==
    IF text = <<>> THEN <<>>
    ELSE LET n == Len(text)
             k == CHOOSE i \in 1..n :
                     /\ BreakBefore(text, i)
                     /\ \A j \in (i + 1)..n : ~BreakBefore(text, j)
         IN  Append(graphemes(SubSeq(text, 1, k - 1)), SubSeq(text, k, n))

\* UnicodeWidthStr::width of a grapheme
unicode_width(grapheme) == SumSeq([i \in 1..Len(grapheme) |-> CharWidth(grapheme[i])])

\* str::trim().is_empty()
trim_is_empty(grapheme) == \A i \in 1..Len(grapheme) : IsWhitespace(grapheme[i])

\* the closure of impl From<&str> for Line: one grapheme to one TextFragment
TextFragment(grapheme) ==
    LET w == unicode_width(grapheme)
        measured == IF w \in {0, 1} THEN "Half" ELSE "Full"
    IN  IF grapheme = <<TAB>>
        THEN [grapheme |-> grapheme, rendered_width |-> "Half", replacement |-> " "]
        ELSE IF w > 0 /\ trim_is_empty(grapheme)
        THEN [grapheme |-> grapheme, rendered_width |-> "Half", replacement |-> BLANK_GLYPH]
        ELSE IF w = 0 /\ Len(grapheme) = 1 /\ IsControl(grapheme[1])
        THEN [grapheme |-> grapheme, rendered_width |-> "Half", replacement |-> PLACEHOLDER_GLYPH]
        ELSE [grapheme |-> grapheme, rendered_width |-> measured, replacement |-> NoChar]

\* impl From<&str> for Line
Line_from(text) ==
    LET gs == graphemes(text)
    IN  [i \in 1..Len(gs) |-> TextFragment(gs[i])]

\* GraphemeWidth in cells
Cells(rendered_width) == IF rendered_width = "Half" THEN 1 ELSE 2

grapheme_count(line) == Len(line)

graphemes_width(line) == SumSeq([i \in 1..Len(line) |-> Cells(line[i].rendered_width)])

\* impl Display for Line: the text of a line
LineText(line) == Concat([i \in 1..Len(line) |-> line[i].grapheme])

\* Glyph without the substitution glyphs
Glyph_raw(fragment) == fragment.grapheme

\* the glyph a unit is drawn with
Glyph(fragment) ==
    IF fragment.replacement # NoChar THEN <<fragment.replacement>> ELSE fragment.grapheme

\* Line::get_visible_graphemes(start..end)
RECURSIVE visible_from(_, _, _, _, _)
visible_from(line, i, fragment_start, start, end) ==
    IF i > Len(line) \/ fragment_start > end THEN <<>>
    ELSE LET fragment == line[i]
             fragment_end == saturating_add(fragment_start, Cells(fragment.rendered_width))
             out == IF fragment_end > start
                    THEN IF fragment_start < start \/ fragment_end > end
                         THEN <<ELLIPSIS>>
                         ELSE Glyph(fragment)
                    ELSE <<>>
         IN  out \o visible_from(line, i + 1, fragment_end, start, end)

get_visible_graphemes(line, start, end) ==
    IF start >= end THEN <<>> ELSE visible_from(line, 1, 0, start, end)

\* Line::insert_char(character, at), at counted from 0
Line_insert_char(line, character, at) ==
    LET n == Len(line)
        k == IF at >= n THEN n ELSE at
        result == LineText(SubSeq(line, 1, k)) \o <<character>> \o LineText(SubSeq(line, k + 1, n))
    IN  Line_from(result)

\* Line::append(other)
Line_append(line, other) == line \o other

\* Line::delete skipping the unit after at instead of the unit at at
Line_delete_after(line, at) ==
    Line_from(LineText(IF at + 1 < Len(line)
                       THEN SubSeq(line, 1, at + 1) \o SubSeq(line, at + 3, Len(line))
                       ELSE line))

\* Line::delete(at), at counted from 0
Line_delete(line, at) ==
    LET n == Len(line)
        kept == IF at < n THEN SubSeq(line, 1, at) \o SubSeq(line, at + 2, n) ELSE line
    IN  Line_from(LineText(kept))

\* Line::split(at): <<what stays in the line, the returned Line>>
Line_split(line, at) ==
    IF at > Len(line) THEN <<line, <<>>>>
    ELSE <<SubSeq(line, 1, at), SubSeq(line, at + 1, Len(line))>>

(***************************************************************************)
(* Document Buffer (editor/buffer.rs).  A Location counts from 0, a TLA+   *)
(* sequence from 1: line l of the code is lines[l + 1].                    *)
(***************************************************************************)
\* str::lines(): split at each newline, a final empty piece is not a line
RECURSIVE str_lines(_)
str_lines(content) ==
    IF content = <<>> THEN <<>>
    ELSE IF \E i \in 1..Len(content) : content[i] = NEWLINE
    THEN LET k == CHOOSE i \in 1..Len(content) :
                     /\ content[i] = NEWLINE
                     /\ \A j \in 1..(i - 1) : content[j] # NEWLINE
         IN  <<SubSeq(content, 1, k - 1)>> \o str_lines(SubSeq(content, k + 1, Len(content)))
    ELSE <<content>>

\* Buffer::new(content)
Buffer_new(content) ==
    LET ls == str_lines(content)
    IN  [i \in 1..Len(ls) |-> Line_from(ls[i])]

line_count(lines) == Len(lines)

InsertAt(seq, i, x) == SubSeq(seq, 1, i - 1) \o <<x>> \o SubSeq(seq, i, Len(seq))
RemoveAt(seq, i) == SubSeq(seq, 1, i - 1) \o SubSeq(seq, i + 1, Len(seq))

\* Buffer::insert_newline(after_index, line)
insert_newline(lines, after_index, line) ==
    IF after_index < Len(lines)
    THEN InsertAt(lines, after_index + 2, line)
    ELSE Append(lines, line)

\* Buffer::insert_char that returns for at.line_index >= height
insert_char_no_append(lines, character, at) ==
    IF at.line_index >= Len(lines) THEN lines
    ELSE [lines EXCEPT ![at.line_index + 1] =
              Line_insert_char(@, character, at.grapheme_index)]

\* Buffer::insert_char(character, at)
insert_char(lines, character, at) ==
    LET height == Len(lines)
    IN  IF at.line_index > height THEN lines
        ELSE IF at.line_index = height THEN Append(lines, Line_from(<<character>>))
        ELSE [lines EXCEPT ![at.line_index + 1] =
                  Line_insert_char(@, character, at.grapheme_index)]

\* Buffer::delete that appends the next line without removing it
delete_keeps_next(lines, at) ==
    IF at.line_index < Len(lines)
    THEN LET line == lines[at.line_index + 1]
         IN  IF /\ at.grapheme_index >= Len(line)
                /\ Len(lines) > saturating_add(at.line_index, 1)
             THEN [lines EXCEPT ![at.line_index + 1] =
                       Line_append(@, lines[at.line_index + 2])]
             ELSE IF at.grapheme_index < Len(line) \/ at.grapheme_index = Len(line)
             THEN [lines EXCEPT ![at.line_index + 1] = Line_delete(@, at.grapheme_index)]
             ELSE lines
    ELSE lines

\* Buffer::delete(at)
delete(lines, at) ==
    IF at.line_index < Len(lines)
    THEN LET line == lines[at.line_index + 1]
         IN  IF /\ at.grapheme_index >= Len(line)
                /\ Len(lines) > saturating_add(at.line_index, 1)
             THEN LET next_line == lines[at.line_index + 2]
                      removed == RemoveAt(lines, at.line_index + 2)
                  IN  [removed EXCEPT ![at.line_index + 1] = Line_append(@, next_line)]
             ELSE IF at.grapheme_index < Len(line) \/ at.grapheme_index = Len(line)
             THEN [lines EXCEPT ![at.line_index + 1] = Line_delete(@, at.grapheme_index)]
             ELSE lines
    ELSE lines

(***************************************************************************)
(* Terminal (view/terminal.rs).  The handlers are functions of a record t  *)
(* of the Terminal's fields, with the history field scrolled.  A handler   *)
(* returns [t, res]: the fields it leaves and "Ok", "Err" (an io::Error)   *)
(* or "Panic".  flush_ok is the outcome of the handler's stdout flush;     *)
(* overflow_panics is what the build does on an unchecked arithmetic       *)
(* overflow: panic (overflow checks on) or wrap (overflow checks off).     *)
(***************************************************************************)
Loc(l, g) == [line_index |-> l, grapheme_index |-> g]
Size(w, h) == [width |-> w, height |-> h]

\* an assignment to self.location
SetLocation(t, loc) ==
    [t EXCEPT !.location = loc,
              !.scrolled = IF loc = t.location THEN @ ELSE FALSE]

\* Location::to_position(scroll_offset)
to_position(loc, offset) ==
    [x |-> saturating_sub(loc.grapheme_index, offset.grapheme_index),
     y |-> saturating_sub(loc.line_index, offset.line_index)]

\* "Scroll vertically" without the + 1 that keeps the caret on the last row
scroll_vertically_short(t) ==
    IF t.location.line_index < t.scroll_offset.line_index
    THEN [t EXCEPT !.scroll_offset.line_index = t.location.line_index,
                   !.needs_render = TRUE]
    ELSE IF t.location.line_index >= saturating_add(t.scroll_offset.line_index, t.size.height)
    THEN [t EXCEPT !.scroll_offset.line_index =
                       saturating_sub(t.location.line_index, t.size.height),
                   !.needs_render = TRUE]
    ELSE t

\* Terminal::scroll_location_into_view, "Scroll vertically"
scroll_vertically(t) ==
    IF t.location.line_index < t.scroll_offset.line_index
    THEN [t EXCEPT !.scroll_offset.line_index = t.location.line_index,
                   !.needs_render = TRUE]
    ELSE IF t.location.line_index >= saturating_add(t.scroll_offset.line_index, t.size.height)
    THEN [t EXCEPT !.scroll_offset.line_index =
                       saturating_add(saturating_sub(t.location.line_index, t.size.height), 1),
                   !.needs_render = TRUE]
    ELSE t

\* "Scroll horizontally" marking the viewport dirty on every call
scroll_horizontally_dirty(t) ==
    IF t.location.grapheme_index < t.scroll_offset.grapheme_index
    THEN [t EXCEPT !.scroll_offset.grapheme_index = t.location.grapheme_index,
                   !.needs_render = TRUE]
    ELSE IF t.location.grapheme_index >= saturating_add(t.scroll_offset.grapheme_index, t.size.width)
    THEN [t EXCEPT !.scroll_offset.grapheme_index =
                       saturating_add(saturating_sub(t.location.grapheme_index, t.size.width), 1),
                   !.needs_render = TRUE]
    ELSE [t EXCEPT !.needs_render = TRUE]

\* Terminal::scroll_location_into_view, "Scroll horizontally"
scroll_horizontally(t) ==
    IF t.location.grapheme_index < t.scroll_offset.grapheme_index
    THEN [t EXCEPT !.scroll_offset.grapheme_index = t.location.grapheme_index,
                   !.needs_render = TRUE]
    ELSE IF t.location.grapheme_index >= saturating_add(t.scroll_offset.grapheme_index, t.size.width)
    THEN [t EXCEPT !.scroll_offset.grapheme_index =
                       saturating_add(saturating_sub(t.location.grapheme_index, t.size.width), 1),
                   !.needs_render = TRUE]
    ELSE t

\* Terminal::scroll_location_into_view
scroll_location_into_view(t) ==
    [scroll_horizontally(scroll_vertically(t)) EXCEPT !.scrolled = TRUE]

\* the column clamped to the grapheme count of the line moved to
clamp_col_count(t, line_index) ==
    IF t.location.grapheme_index > grapheme_count(t.buffer[line_index + 1])
    THEN grapheme_count(t.buffer[line_index + 1])
    ELSE t.location.grapheme_index

\* the column after a move to line line_index: clamped to that line's width
clamp_col(t, line_index) ==
    IF t.location.grapheme_index > graphemes_width(t.buffer[line_index + 1])
    THEN graphemes_width(t.buffer[line_index + 1])
    ELSE t.location.grapheme_index

\* Direction::Down stopping one line short of the last line
move_down_short(t) ==
    IF t.location.line_index < saturating_sub(line_count(t.buffer), 2)
    THEN SetLocation(t, Loc(saturating_add(t.location.line_index, 1),
                            clamp_col(t, saturating_add(t.location.line_index, 1))))
    ELSE t

\* the Direction::Down arm of Terminal::move_caret_to_location
move_down(t) ==
    IF t.location.line_index < saturating_sub(line_count(t.buffer), 1)
    THEN SetLocation(t, Loc(saturating_add(t.location.line_index, 1),
                            clamp_col(t, saturating_add(t.location.line_index, 1))))
    ELSE t

\* Direction::End moving to the end-of-line position
move_end_past(t, overflow_panics) ==
    [t |-> SetLocation(t, Loc(t.location.line_index,
                              Len(t.buffer[t.location.line_index + 1]))),
     res |-> "Ok"]

\* the Direction::End arm of Terminal::move_caret_to_location.
\* fragments.len() - 1 is unchecked: on an empty line it panics with overflow
\* checks and wraps to usize::MAX without
move_end(t, overflow_panics) ==
    IF Len(t.buffer[t.location.line_index + 1]) > 0
    THEN [t |-> SetLocation(t, Loc(t.location.line_index,
                                   Len(t.buffer[t.location.line_index + 1]) - 1)),
          res |-> "Ok"]
    ELSE IF overflow_panics
    THEN [t |-> t, res |-> "Panic"]
    ELSE [t |-> SetLocation(t, Loc(t.location.line_index, UsizeMax)), res |-> "Ok"]

\* the match on direction in Terminal::move_caret_to_location, for a caret on
\* an existing line curr_line
move_in_direction(t, direction, overflow_panics) ==
    LET lines == t.buffer
        row == t.location.line_index
        col == t.location.grapheme_index
        height == t.size.height
        curr_line == lines[row + 1]
        ok(u) == [t |-> u, res |-> "Ok"]
    IN  CASE direction = "Up" ->
                IF row > 0
                THEN ok(SetLocation(t, Loc(saturating_sub(row, 1),
                                           clamp_col(t, saturating_sub(row, 1)))))
                ELSE ok(SetLocation(t, Loc(0, col)))
          [] direction = "Down" -> ok(move_down(t))
          [] direction = "Left" ->
                LET a == IF col > 0 THEN SetLocation(t, Loc(row, saturating_sub(col, 1))) ELSE t
                IN  IF col = 0 /\ row > 0
                    THEN ok(SetLocation(a, Loc(saturating_sub(row, 1),
                             saturating_sub(Len(lines[saturating_sub(row, 1) + 1]), 1))))
                    ELSE ok(a)
          [] direction = "Right" ->
                LET last == saturating_sub(graphemes_width(curr_line), 1)
                    a == IF col < last THEN SetLocation(t, Loc(row, saturating_add(col, 1))) ELSE t
                IN  IF col >= last /\ saturating_add(row, 1) < Len(lines)
                    THEN ok(SetLocation(a, Loc(saturating_add(row, 1), 0)))
                    ELSE ok(a)
          [] direction = "PageUp" ->
                IF row < height
                THEN ok(SetLocation(t, Loc(0, col)))
                ELSE ok(SetLocation(t, Loc(saturating_sub(row, height), col)))
          [] direction = "PageDown" ->
                IF line_count(lines) > saturating_add(row, height)
                THEN ok(SetLocation(t, Loc(saturating_add(row, height), col)))
                ELSE ok(SetLocation(t, Loc(saturating_sub(line_count(lines), 1), col)))
          [] direction = "Home" -> ok(SetLocation(t, Loc(row, 0)))
          [] direction = "End" -> move_end(t, overflow_panics)

\* the end of Terminal::move_caret_to_location: scroll, flush
scroll_and_flush(m, flush_ok) ==
    IF m.res = "Panic" THEN m
    ELSE [t |-> scroll_location_into_view(m.t),
          res |-> IF flush_ok THEN "Ok" ELSE "Err"]

\* Terminal::move_caret_to_location(direction)
move_caret_to_location(t, direction, flush_ok, overflow_panics) ==
    scroll_and_flush(IF t.location.line_index < Len(t.buffer)
                     THEN move_in_direction(t, direction, overflow_panics)
                     ELSE [t |-> t, res |-> "Ok"],
                     flush_ok)

\* self.needs_render = true; Ok(()) after a call followed by `?`
then_needs_render(m) ==
    IF m.res # "Ok" THEN m
    ELSE [t |-> [m.t EXCEPT !.needs_render = TRUE], res |-> "Ok"]

\* .get(line_index).map_or(0, Line::grapheme_count)
len_at(lines, line_index) ==
    IF line_index < Len(lines) THEN grapheme_count(lines[line_index + 1]) ELSE 0

\* Terminal::handle_ordinary_typing after buffer.insert_char
after_insert_char(t, inserted, flush_ok, overflow_panics) ==
    IF saturating_sub(len_at(inserted.buffer, t.location.line_index),
                      len_at(t.buffer, t.location.line_index)) > 0
    THEN then_needs_render(move_caret_to_location(inserted, "Right", flush_ok, overflow_panics))
    ELSE then_needs_render([t |-> inserted, res |-> "Ok"])

\* Terminal::handle_ordinary_typing(Some(c))
handle_ordinary_typing(t, c, flush_ok, overflow_panics) ==
    after_insert_char(t, [t EXCEPT !.buffer = insert_char(@, c, t.location)],
                      flush_ok, overflow_panics)

\* the Backspace arm of Terminal::handle_special_key, "Merge with previous
\* line": lines is the buffer with the caret's line already merged and removed
backspace_merge(t, lines, previous_line_index) ==
    [t |-> [SetLocation([t EXCEPT !.buffer = lines],
                        Loc(previous_line_index, Len(lines[previous_line_index + 1])))
               EXCEPT !.needs_render = TRUE],
     res |-> "Ok"]

\* the Backspace arm of Terminal::handle_special_key
handle_backspace(t, flush_ok, overflow_panics) ==
    IF t.location.line_index >= Len(t.buffer) THEN [t |-> t, res |-> "Ok"]
    ELSE IF t.location.grapheme_index # 0
    THEN \* Vec::remove panics on an index that is not in the vector
         IF saturating_sub(t.location.grapheme_index, 1)
                >= Len(t.buffer[t.location.line_index + 1])
         THEN [t |-> t, res |-> "Panic"]
         ELSE then_needs_render(move_caret_to_location(
                  [t EXCEPT !.buffer[t.location.line_index + 1] =
                                RemoveAt(@, t.location.grapheme_index)],
                  "Left", flush_ok, overflow_panics))
    ELSE IF t.location.line_index = 0
    THEN [t |-> [t EXCEPT !.needs_render = TRUE], res |-> "Ok"]
    ELSE backspace_merge(t,
             RemoveAt([t.buffer EXCEPT ![t.location.line_index] =
                           @ \o t.buffer[t.location.line_index + 1]],
                      t.location.line_index + 1),
             saturating_sub(t.location.line_index, 1))

\* Terminal::handle_special_key(special_key).  Enter calls the buffer's
\* insert_newline with the caret's line and no carried Line; Tab has no arm
\* of its own and is taken to reach the closing Ok(()).
handle_special_key(t, special_key, flush_ok, overflow_panics) ==
    CASE special_key = "Enter" ->
            then_needs_render(move_caret_to_location(
                [t EXCEPT !.buffer = insert_newline(@, t.location.line_index, Line_from(<<>>))],
                "Right", flush_ok, overflow_panics))
      [] special_key = "Delete" ->
            [t |-> [t EXCEPT !.buffer = delete(@, t.location), !.needs_render = TRUE],
             res |-> "Ok"]
      [] special_key = "Backspace" -> handle_backspace(t, flush_ok, overflow_panics)
      [] special_key \in {"BackTab", "Insert", "CapsLock"} -> [t |-> t, res |-> "Panic"]
      [] special_key = "Tab" -> [t |-> t, res |-> "Ok"]

\* Terminal::resize(to): self.size = to
set_size(t, to) ==
    [t EXCEPT !.size = to, !.scrolled = IF to = t.size THEN @ ELSE FALSE]

\* Terminal::resize(to)
resize(t, to) ==
    [scroll_location_into_view(set_size(t, to)) EXCEPT !.needs_render = TRUE]

\* Terminal::render that returns without clearing the dirty flag
render_keeps_dirty(t) == t

\* Terminal::render: what it leaves in needs_render
render(t) ==
    IF ~t.needs_render THEN t
    ELSE IF t.size.width = 0 THEN t
    ELSE [t EXCEPT !.needs_render = FALSE]

\* Editor::refresh_screen.  io_fault is the call whose write to stdout fails:
\* "none", "hide_caret" (before render) or "flush" (after render); a failing
\* write inside render leaves the fields as a failing hide_caret does.
IoFaults == {"none", "hide_caret", "flush"}

refresh_screen(t, io_fault) ==
    CASE io_fault = "none" -> [t |-> render(t), res |-> "Ok"]
      [] io_fault = "hide_caret" -> [t |-> t, res |-> "Err"]
      [] io_fault = "flush" -> [t |-> render(t), res |-> "Err"]

\* View::terminate, as the history sees it
terminate(log) == Append(log, "terminate")

\* a hook that hands the panic on before it restores the terminal
panic_hook_late(log) == terminate(Append(log, "previous_hook"))

\* the panic hook set by Editor::new: terminate, then the hook taken before
panic_hook(log) == Append(terminate(log), "previous_hook")

\* impl Drop for Editor
drop(log) == terminate(log)

\* Editor::run returns an io::Error to main, where the Editor goes out of scope
run_fails(log) == drop(log)

\* Editor::run after the loop: self.ui.terminate()?; Ok(()); then main ends
run_leaves(log) == drop(terminate(log))

\* a panic: the hook runs, then the Editor is dropped by the unwinding, if
\* the build unwinds rather than aborts
panic_ends(log, unwinds) == IF unwinds THEN drop(panic_hook(log)) ELSE panic_hook(log)

Directions == {"Up", "Down", "Left", "Right", "PageUp", "PageDown", "Home", "End"}
SpecialKeys == {"Backspace", "Delete", "Enter", "Tab", "BackTab", "CapsLock", "Insert"}

\* Err(_) => Ok(()): "Just ignore the error for now"
ignore_error(r) == IF r.res = "Err" THEN [r EXCEPT !.res = "Ok"] ELSE r

\* Terminal::handle_command(command)
handle_command(t, command, flush_ok, overflow_panics) ==
    CASE command.kind = "MoveCaret" ->
            move_caret_to_location(t, command.direction, flush_ok, overflow_panics)
      [] command.kind = "OrdinaryChar" ->
            ignore_error(handle_ordinary_typing(t, command.char, flush_ok, overflow_panics))
      [] command.kind = "SpecialKey" ->
            ignore_error(handle_special_key(t, command.key, flush_ok, overflow_panics))
      [] command.kind = "FunctionKey" -> [t |-> t, res |-> "Ok"]
      [] command.kind = "Resize" -> [t |-> resize(t, command.size), res |-> "Ok"]

(***************************************************************************)
(* The session: Editor::run alternates refresh_screen and                  *)
(* evaluate_keypress.                                                      *)
(***************************************************************************)
Self ==
    [buffer |-> buffer, needs_render |-> needs_render, size |-> size,
     location |-> location, scroll_offset |-> scroll_offset, scrolled |-> scrolled]

Store(t) ==
    /\ buffer' = t.buffer
    /\ needs_render' = t.needs_render
    /\ size' = t.size
    /\ location' = t.location
    /\ scroll_offset' = t.scroll_offset
    /\ scrolled' = t.scrolled

\* the files the editor is started on
FileContents ==
    { <<>>,
      <<"a", "b", NEWLINE, NEWLINE>>,
      <<WIDE, MARK, NEWLINE, MARK>> }

\* the characters typed
TypedChars == {"x"}

Sizes == {Size(w, h) : w \in 0..MaxSize, h \in 0..MaxSize}

CharCount(lines) == SumSeq([i \in 1..Len(lines) |-> Len(LineText(lines[i]))])

\* Terminal::new(file_content), Editor::new(terminal)
Init ==
    /\ \E content \in FileContents : buffer = Buffer_new(content)
    /\ needs_render = TRUE
    /\ size \in Sizes
    /\ location = Loc(0, 0)
    /\ scroll_offset = Loc(0, 0)
    /\ should_quit = FALSE
    /\ lifecycle = <<>>
    /\ pc = "refresh"
    /\ scrolled = FALSE
    /\ harness = [spec |-> "session"]

\* `?` on the result of refresh_screen, then the should_quit test and, after
\* the break, what is left of Editor::run and of main
Refreshed(r, terminate_ok) ==
    /\ Store(r.t)
    /\ pc' = IF r.res = "Err" THEN "failed"
             ELSE IF ~should_quit THEN "read"
             ELSE IF terminate_ok THEN "exited" ELSE "failed"
    /\ lifecycle' = IF r.res = "Err" THEN run_fails(lifecycle)
                    ELSE IF ~should_quit THEN lifecycle
                    ELSE run_leaves(lifecycle)

\* terminate is called, and can fail, only after the break
TerminateOutcomes == IF should_quit THEN BOOLEAN ELSE {TRUE}

\* one step of the loop of Editor::run: refresh_screen, then the should_quit test
Refresh ==
    /\ pc = "refresh"
    /\ \E io_fault \in IoFaults, terminate_ok \in TerminateOutcomes :
           \E r \in {refresh_screen(Self, io_fault)} : Refreshed(r, terminate_ok)
    /\ UNCHANGED <<should_quit, harness>>

\* the end of the loop body of Editor::run: `?` on the handler's result
Return(r) ==
    /\ Store(r.t)
    /\ pc' = CASE r.res = "Ok" -> "refresh"
               [] r.res = "Err" -> "failed"
               [] r.res = "Panic" -> "panicked"
    /\ lifecycle' = IF r.res = "Err" THEN run_fails(lifecycle) ELSE lifecycle
    /\ UNCHANGED should_quit

\* evaluate_keypress on an event that decodes to command
Apply(command, flush_ok, overflow_panics) ==
    \E r \in {handle_command(Self, command, flush_ok, overflow_panics)} : Return(r)

\* the builds differ only where the code subtracts unchecked: Direction::End
OverflowOutcomes(direction) == IF direction = "End" THEN BOOLEAN ELSE {TRUE}

\* the handlers that flush stdout can fail there
FlushOutcomes(key) == IF key \in {"Enter", "Backspace"} THEN BOOLEAN ELSE {TRUE}

MoveCaret(direction) ==
    /\ pc = "read"
    /\ direction = "Left" => location.grapheme_index # UsizeMax - MaxWrapLeft
    /\ \E flush_ok \in BOOLEAN, overflow_panics \in OverflowOutcomes(direction) :
           Apply([kind |-> "MoveCaret", direction |-> direction], flush_ok, overflow_panics)
    /\ UNCHANGED harness

OrdinaryChar(c) ==
    /\ pc = "read"
    /\ CharCount(buffer) < MaxChars
    /\ \E flush_ok \in BOOLEAN :
           Apply([kind |-> "OrdinaryChar", char |-> c], flush_ok, TRUE)
    /\ UNCHANGED harness

SpecialKey(key) ==
    /\ pc = "read"
    /\ key = "Enter" => Len(buffer) < MaxLines
    /\ \E flush_ok \in FlushOutcomes(key) :
           Apply([kind |-> "SpecialKey", key |-> key], flush_ok, TRUE)
    /\ UNCHANGED harness

FunctionKey ==
    /\ pc = "read"
    /\ Apply([kind |-> "FunctionKey"], TRUE, TRUE)
    /\ UNCHANGED harness

Resize(to) ==
    /\ pc = "read"
    /\ Apply([kind |-> "Resize", size |-> to], TRUE, TRUE)
    /\ UNCHANGED harness

\* evaluate_keypress when read() returns an io::Error
ReadFails ==
    /\ pc = "read"
    /\ pc' = "failed"
    /\ lifecycle' = run_fails(lifecycle)
    /\ UNCHANGED <<buffer, needs_render, size, location, scroll_offset, should_quit,
                   scrolled, harness>>

\* evaluate_keypress on the quit key: self.terminate()?; action(EditorCommand::Quit)
Quit(terminate_ok) ==
    /\ pc = "read"
    /\ lifecycle' = IF terminate_ok THEN terminate(lifecycle)
                    ELSE run_fails(terminate(lifecycle))
    /\ should_quit' = (should_quit \/ terminate_ok)
    /\ pc' = IF terminate_ok THEN "refresh" ELSE "failed"
    /\ UNCHANGED <<buffer, needs_render, size, location, scroll_offset, scrolled, harness>>

\* a panic of a handler reaches the hook set by Editor::new and ends the process
Panic(unwinds) ==
    /\ pc = "panicked"
    /\ lifecycle' = panic_ends(lifecycle, unwinds)
    /\ pc' = "crashed"
    /\ UNCHANGED <<buffer, needs_render, size, location, scroll_offset, should_quit,
                   scrolled, harness>>

Next ==
    \/ Refresh
    \/ \E direction \in Directions : MoveCaret(direction)
    \/ \E c \in TypedChars : OrdinaryChar(c)
    \/ \E key \in SpecialKeys : SpecialKey(key)
    \/ FunctionKey
    \/ \E to \in Sizes : Resize(to)
    \/ ReadFails
    \/ \E terminate_ok \in BOOLEAN : Quit(terminate_ok)
    \/ \E unwinds \in BOOLEAN : Panic(unwinds)

Spec == Init /\ [][Next]_vars

(***************************************************************************)
(* Properties of the session (Spec).                                       *)
(***************************************************************************)
Running == pc \in {"refresh", "read"}

\* the text of every line of a buffer
Texts(lines) == [i \in 1..Len(lines) |-> LineText(lines[i])]

\* C1: the Buffer always holds at least one Line, from construction on and
\* after every sequence of InsertChar, Enter, Delete and Backspace commands.
C1_AtLeastOneLine == Len(buffer) >= 1

\* C2: after any sequence of commands the caret is on a line of the buffer,
\* 0 <= line_index < line_count, and within it or at its end,
\* 0 <= grapheme_index <= grapheme_count of that line.
C2_CaretInBounds ==
    /\ 0 <= location.line_index
    /\ location.line_index < Len(buffer)
    /\ 0 <= location.grapheme_index
    /\ location.grapheme_index <= grapheme_count(buffer[location.line_index + 1])

Contained ==
    /\ scroll_offset.line_index <= location.line_index
    /\ location.line_index < scroll_offset.line_index + size.height
    /\ scroll_offset.grapheme_index <= location.grapheme_index
    /\ location.grapheme_index < scroll_offset.grapheme_index + size.width

\* C3 as claimed: whenever the scroll algorithm has returned, for every
\* caret, scroll offset and viewport size, the caret's line lies in
\* [offsetRow, offsetRow + height) and its column in [offsetCol, offsetCol + width).
C3_ScrollContainment == scrolled => Contained

\* C3 as amended: the same for every viewport of at least one row and one
\* column; a viewport of height or width 0 has no cell to hold the caret.
C3_ScrollContainmentNonEmpty ==
    (scrolled /\ size.width >= 1 /\ size.height >= 1) => Contained

C3_Witness ==
    /\ scrolled
    /\ size.width >= 1
    /\ size.height >= 1
    /\ scroll_offset.line_index > 0
    /\ Contained

\* C4: every handler that changes the caret Location runs the scroll
\* algorithm before it returns.
C4_ScrollAfterCaretMove == [][location' # location => scrolled']_vars

AB == Line_from(<<"a", "b">>)
EmptyLine == Line_from(<<>>)
X == Line_from(<<"x">>)

\* C6: from Buffer ["ab"] with the caret at {0,2}, Enter gives ["ab",""] and
\* caret {1,0}; then OrdinaryChar('x') gives ["ab","x"] and caret {1,1}; then
\* Backspace gives ["ab",""] and caret {1,0}; then Backspace gives ["ab"] and
\* caret {0,2}.
C6_Scenario ==
    [][ /\ (buffer = <<AB>> /\ location = Loc(0, 2) /\ SpecialKey("Enter"))
            => (buffer' = <<AB, EmptyLine>> /\ location' = Loc(1, 0))
        /\ (buffer = <<AB, EmptyLine>> /\ location = Loc(1, 0) /\ OrdinaryChar("x"))
            => (buffer' = <<AB, X>> /\ location' = Loc(1, 1))
        /\ (buffer = <<AB, X>> /\ location = Loc(1, 1) /\ SpecialKey("Backspace"))
            => (buffer' = <<AB, EmptyLine>> /\ location' = Loc(1, 0))
        /\ (buffer = <<AB, EmptyLine>> /\ location = Loc(1, 0) /\ SpecialKey("Backspace"))
            => (buffer' = <<AB>> /\ location' = Loc(0, 2)) ]_vars

\* the caret is on the last grapheme of the last line
OnLastGrapheme ==
    /\ Len(buffer) >= 1
    /\ location.line_index = Len(buffer) - 1
    /\ Len(buffer[Len(buffer)]) >= 1
    /\ location.grapheme_index = Len(buffer[Len(buffer)]) - 1

\* C9: boundary commands are no-ops: Left at {0,0} and Right on the last
\* grapheme of the last line leave the caret Location unchanged, Backspace at
\* {0,0} leaves the Buffer unchanged.
C9_BoundaryNoOps ==
    [][ /\ (location = Loc(0, 0) /\ MoveCaret("Left")) => location' = location
        /\ (OnLastGrapheme /\ MoveCaret("Right")) => location' = location
        /\ (location = Loc(0, 0) /\ SpecialKey("Backspace")) => Texts(buffer') = Texts(buffer)
      ]_vars

TerminateCalls == Cardinality({i \in DOMAIN lifecycle : lifecycle[i] = "terminate"})

\* C11: on a session that ends by the Quit command, View::terminate is
\* called exactly once over the whole run (key handler, run loop and Drop).
C11_TerminateOnce == (pc = "exited" /\ should_quit) => TerminateCalls = 1

\* C12: on every abnormal end of the session (an io::Error from refresh or
\* from reading input, or a panic) View::terminate has been called at least
\* once, and in a panic it is called before the previous panic hook is.
C12_TerminateOnAbnormalEnd ==
    /\ pc \in {"failed", "crashed"} => TerminateCalls >= 1
    /\ \A i \in DOMAIN lifecycle :
           lifecycle[i] = "previous_hook" =>
               \E j \in 1..(i - 1) : lifecycle[j] = "terminate"

\* a panic in a build that aborts: the hook's call is the only one
C12_Witness ==
    /\ pc = "crashed"
    /\ lifecycle = <<"terminate", "previous_hook">>

\* C13: every command handler completes without a fault (no panic).
C13_HandlersTotal == pc # "panicked"

\* C18: after any sequence of OrdinaryChar, Delete and Backspace commands
\* (line merges included) each Line's unit sequence is the segmentation of
\* that Line's text into grapheme units.
C18_Resegmented ==
    \A i \in 1..Len(buffer) : buffer[i] = Line_from(LineText(buffer[i]))

\* the result of the handler of a command whose stdout flush fails, as it
\* reaches handle_command
OrdinaryCharFaults(c) == handle_ordinary_typing(Self, c, FALSE, TRUE).res = "Err"
SpecialKeyFaults(key) == handle_special_key(Self, key, FALSE, TRUE).res = "Err"
MoveCaretFaults(direction, overflow_panics) ==
    move_caret_to_location(Self, direction, FALSE, overflow_panics).res = "Err"

\* C17: an io::Error raised while a command is applied or while the screen
\* is refreshed stops the run, which returns it: the step ends in "failed",
\* where no render or input read follows.
C17_FaultsPropagate ==
    [][ /\ \A direction \in Directions, overflow_panics \in BOOLEAN :
              ( /\ pc = "read"
                /\ MoveCaretFaults(direction, overflow_panics)
                /\ Apply([kind |-> "MoveCaret", direction |-> direction],
                         FALSE, overflow_panics) ) => pc' = "failed"
        /\ \A c \in TypedChars :
              ( /\ pc = "read"
                /\ OrdinaryCharFaults(c)
                /\ Apply([kind |-> "OrdinaryChar", char |-> c], FALSE, TRUE) )
              => pc' = "failed"
        /\ \A key \in SpecialKeys :
              ( /\ pc = "read"
                /\ SpecialKeyFaults(key)
                /\ Apply([kind |-> "SpecialKey", key |-> key], FALSE, TRUE) )
              => pc' = "failed"
        /\ \A io_fault \in IoFaults \ {"none"} :
              ( /\ pc = "refresh"
                /\ \E r \in {refresh_screen(Self, io_fault)} : Refreshed(r, TRUE) )
              => pc' = "failed"
      ]_vars

(***************************************************************************)
(* SpecScroll: scroll_location_into_view called on any caret, scroll       *)
(* offset, viewport size and dirty flag; harness.pre is the Terminal it    *)
(* was called on.                                                          *)
(***************************************************************************)
Coords == 0..MaxCoord

InitScroll ==
    /\ buffer = <<>>
    /\ needs_render \in BOOLEAN
    /\ size \in {Size(w, h) : w \in Coords, h \in Coords}
    /\ location \in {Loc(l, g) : l \in Coords, g \in Coords}
    /\ scroll_offset \in {Loc(l, g) : l \in Coords, g \in Coords}
    /\ should_quit = FALSE
    /\ lifecycle = <<>>
    /\ pc = "call"
    /\ scrolled = FALSE
    /\ harness = [spec |-> "scroll"]

ScrollCall ==
    /\ pc = "call"
    /\ \E t \in {scroll_location_into_view(Self)} : Store(t)
    /\ pc' = "returned"
    /\ harness' = [spec |-> "scroll", pre |-> Self]
    /\ UNCHANGED <<should_quit, lifecycle>>

SpecScroll == InitScroll /\ [][ScrollCall]_vars

\* the offset the minimal-movement policy asks for on one axis
MinimalOffset(target, offset, extent) ==
    IF target < offset THEN target
    ELSE IF target >= offset + extent THEN target - extent + 1
    ELSE offset

\* C5: the scroll algorithm moves the offset minimally on each axis (not at
\* all when the caret is inside the window, to the caret when it is before
\* it, to caret - extent + 1 when it is past it), and leaves the dirty flag
\* as it was when neither offset component changes.
C5_MinimalScroll ==
    pc = "returned" =>
        /\ scroll_offset.line_index =
               MinimalOffset(harness.pre.location.line_index,
                             harness.pre.scroll_offset.line_index,
                             harness.pre.size.height)
        /\ scroll_offset.grapheme_index =
               MinimalOffset(harness.pre.location.grapheme_index,
                             harness.pre.scroll_offset.grapheme_index,
                             harness.pre.size.width)
        /\ scroll_offset = harness.pre.scroll_offset
               => needs_render = harness.pre.needs_render

C5_Witness ==
    /\ pc = "returned"
    /\ harness.pre.size.height = 2
    /\ harness.pre.location.line_index = 3
    /\ harness.pre.scroll_offset.line_index = 0
    /\ scroll_offset.line_index = 2
    /\ scroll_offset.grapheme_index = harness.pre.scroll_offset.grapheme_index
    /\ ~harness.pre.needs_render
    /\ needs_render

(***************************************************************************)
(* SpecDown: a session from caret {0,0} and scroll offset {0,0} in which   *)
(* only Down is pressed; harness.downs counts the Down commands.           *)
(***************************************************************************)
DownBuffers ==
    {[i \in 1..n |-> Line_from(text)] :
        n \in (1..MaxDownLines) \cup {50}, text \in {<<>>, <<"a">>}}

InitDown ==
    /\ buffer \in DownBuffers
    /\ needs_render = TRUE
    /\ size \in {Size(w, h) : w \in 0..1, h \in (1..MaxDownHeight) \cup {10}}
    /\ location = Loc(0, 0)
    /\ scroll_offset = Loc(0, 0)
    /\ should_quit = FALSE
    /\ lifecycle = <<>>
    /\ pc = "refresh"
    /\ scrolled = FALSE
    /\ harness = [spec |-> "down", downs |-> 0]

DownKey ==
    /\ pc = "read"
    /\ harness.downs < Len(buffer)
    /\ \E flush_ok \in BOOLEAN :
           Apply([kind |-> "MoveCaret", direction |-> "Down"], flush_ok, TRUE)
    /\ harness' = [harness EXCEPT !.downs = @ + 1]

SpecDown == InitDown /\ [][Refresh \/ DownKey]_vars

\* C7: in a Buffer of N lines with a viewport of height h >= 1, after k <= N - 1
\* Down commands from caret {0,0} and offset {0,0} the caret line is k and
\* the scroll offset line is max(0, k - h + 1).
C7_DownScrolls ==
    harness.downs <= Len(buffer) - 1 =>
        /\ location.line_index = harness.downs
        /\ scroll_offset.line_index = Max(0, harness.downs - size.height + 1)

\* the scenario of the claim: 50 lines, height 10, 12 times Down
C7_Witness ==
    /\ Len(buffer) = 50
    /\ size.height = 10
    /\ harness.downs = 12
    /\ location.line_index = 12
    /\ scroll_offset.line_index = 3

(***************************************************************************)
(* SpecInsertDelete: Buffer::insert_char at a Location within bounds, then *)
(* Buffer::delete at the same Location.                                    *)
(***************************************************************************)
TextsOver(alphabet) == UNION {[1..n -> alphabet] : n \in 0..MaxTextLen}

\* the Locations within bounds of a buffer
LocationsIn(lines) ==
    {loc \in {Loc(l, g) : l \in 0..(Len(lines) - 1), g \in 0..MaxTextLen} :
        loc.grapheme_index <= Len(lines[loc.line_index + 1])}

InitInsertDelete ==
    /\ \E content \in TextsOver({"a", MARK, NEWLINE}) : buffer = Buffer_new(content)
    /\ Len(buffer) >= 1
    /\ location \in LocationsIn(buffer)
    /\ \E ch \in {"x", MARK} :
           harness = [spec |-> "insert_delete", stage |-> "start", original |-> buffer,
                      ch |-> ch, own_unit |-> FALSE]
    /\ needs_render = TRUE
    /\ size = Size(0, 0)
    /\ scroll_offset = Loc(0, 0)
    /\ should_quit = FALSE
    /\ lifecycle = <<>>
    /\ pc = "call"
    /\ scrolled = FALSE

\* the unit at Location at of lines is the character ch alone
OwnUnit(lines, at, ch) ==
    /\ at.grapheme_index < Len(lines[at.line_index + 1])
    /\ lines[at.line_index + 1][at.grapheme_index + 1].grapheme = <<ch>>

InsertCall ==
    /\ harness.stage = "start"
    /\ buffer' = insert_char(buffer, harness.ch, location)
    /\ harness' = [harness EXCEPT !.stage = "inserted",
                                  !.own_unit = OwnUnit(buffer', location, harness.ch)]
    /\ UNCHANGED <<needs_render, size, location, scroll_offset, should_quit, pc, lifecycle,
                   scrolled>>

DeleteCall ==
    /\ harness.stage = "inserted"
    /\ buffer' = delete(buffer, location)
    /\ harness' = [harness EXCEPT !.stage = "deleted"]
    /\ UNCHANGED <<needs_render, size, location, scroll_offset, should_quit, pc, lifecycle,
                   scrolled>>

SpecInsertDelete == InitInsertDelete /\ [][InsertCall \/ DeleteCall]_vars

\* C8 as claimed: for any Buffer, Location within bounds and character ch,
\* delete(L) after insert_char(ch, L) restores the number of lines and the
\* text of every line.
C8_InsertDeleteInverse ==
    harness.stage = "deleted" => Texts(buffer) = Texts(harness.original)

\* C8 as amended: the same whenever the inserted ch is a grapheme unit of its
\* own at L, that is, it did not join a neighbouring grapheme cluster.
C8_InsertDeleteInverseOwnUnit ==
    (harness.stage = "deleted" /\ harness.own_unit)
        => Texts(buffer) = Texts(harness.original)

C8_Witness ==
    /\ harness.stage = "deleted"
    /\ harness.own_unit
    /\ harness.ch = "x"
    /\ Len(buffer) = 2
    /\ location = Loc(0, 1)
    /\ Texts(buffer) = <<<<"a">>, <<"a">>>>

(***************************************************************************)
(* SpecLine: a Line built from a printable ASCII text and drawn in full.   *)
(* The sample has a letter, a punctuation character and the space.         *)
(***************************************************************************)
AsciiSample == {"a", "~", " "}

InitLine ==
    /\ \E text \in TextsOver(AsciiSample) :
           harness = [spec |-> "line", stage |-> "text", text |-> text,
                      line |-> <<>>, rendered |-> <<>>]
    /\ buffer = <<>>
    /\ needs_render = TRUE
    /\ size = Size(0, 0)
    /\ location = Loc(0, 0)
    /\ scroll_offset = Loc(0, 0)
    /\ should_quit = FALSE
    /\ lifecycle = <<>>
    /\ pc = "call"
    /\ scrolled = FALSE

BuildLine ==
    /\ harness.stage = "text"
    /\ harness' = [harness EXCEPT !.stage = "line", !.line = Line_from(harness.text)]
    /\ UNCHANGED <<buffer, needs_render, size, location, scroll_offset, should_quit, pc,
                   lifecycle, scrolled>>

RenderLine ==
    /\ harness.stage = "line"
    /\ harness' = [harness EXCEPT
                       !.stage = "rendered",
                       !.rendered = get_visible_graphemes(harness.line, 0,
                                        graphemes_width(harness.line))]
    /\ UNCHANGED <<buffer, needs_render, size, location, scroll_offset, should_quit, pc,
                   lifecycle, scrolled>>

SpecLine == InitLine /\ [][BuildLine \/ RenderLine]_vars

\* C10 as claimed: for a text of printable ASCII characters, the rendered
\* glyphs of the Line built from it, joined, are the text.
C10_RoundTrip == harness.stage = "rendered" => harness.rendered = harness.text

\* C10 as amended: the joined glyphs are the text with every space drawn as
\* the visible blank glyph; a text without spaces is reproduced exactly.
C10_RoundTripBlanks ==
    harness.stage = "rendered" =>
        harness.rendered =
            [i \in 1..Len(harness.text) |->
                IF harness.text[i] = " " THEN BLANK_GLYPH ELSE harness.text[i]]

C10_Witness ==
    /\ harness.stage = "rendered"
    /\ harness.text = <<"a", " ", "~">>
    /\ harness.rendered = <<"a", BLANK_GLYPH, "~">>

(***************************************************************************)
(* SpecBufferOps: one call of Buffer::insert_newline, Buffer::insert_char, *)
(* Buffer::delete or Line::split on any buffer with any indices, in range  *)
(* or not.  A call faults when it reaches a Vec operation outside that     *)
(* operation's domain; harness.faulted records it.                         *)
(***************************************************************************)
\* the indices at which the standard Vec operations the code calls panic
Vec_insert_panics(seq, index) == index > Len(seq)
Vec_remove_panics(seq, index) == index >= Len(seq)
Vec_index_panics(seq, index) == index >= Len(seq)
Vec_split_off_panics(seq, at) == at > Len(seq)

\* Buffer::insert_newline: lines.insert(after_index + 1, ..) under Some(_)
insert_newline_faults(lines, after_index) ==
    /\ after_index < Len(lines)
    /\ \/ after_index = UsizeMax
       \/ Vec_insert_panics(lines, after_index + 1)

\* Buffer::delete: lines.remove(..), lines[at.line_index] under Some(line)
delete_faults(lines, at) ==
    /\ at.line_index < Len(lines)
    /\ IF /\ at.grapheme_index >= Len(lines[at.line_index + 1])
          /\ Len(lines) > saturating_add(at.line_index, 1)
       THEN \/ Vec_remove_panics(lines, saturating_add(at.line_index, 1))
            \/ Vec_index_panics(RemoveAt(lines, at.line_index + 2), at.line_index)
       ELSE Vec_index_panics(lines, at.line_index)

\* Line::split without its test of at against the length
Line_split_faults_unguarded(line, at) == Vec_split_off_panics(line, at)

\* Line::split: fragments.split_off(at) after the test of at
Line_split_faults(line, at) ==
    IF at > Len(line) THEN FALSE ELSE Vec_split_off_panics(line, at)

\* the indices a call is given: small ones, in range or just out of it, and usize::MAX
Indices == 0..(MaxTextLen + 1) \cup {UsizeMax}

InsertedChars == {"x", MARK}

\* the buffers a call is made on: as Buffer::new builds them, and with the
\* second line merged into the first as Buffer::delete leaves them
BuffersNew == {Buffer_new(content) : content \in TextsOver({"a", MARK, NEWLINE})}

BufferInputs ==
    BuffersNew \cup {delete(lines, Loc(0, UsizeMax)) : lines \in {b \in BuffersNew : Len(b) >= 2}}

InitBufferOps ==
    /\ \E lines \in BufferInputs :
           /\ buffer = lines
           /\ harness = [spec |-> "buffer_ops", op |-> "none", faulted |-> FALSE,
                         before |-> lines, ch |-> NoChar, returned |-> <<>>]
    /\ location \in {Loc(l, g) : l \in Indices, g \in Indices}
    /\ needs_render = FALSE
    /\ size = Size(0, 0)
    /\ scroll_offset = Loc(0, 0)
    /\ should_quit = FALSE
    /\ lifecycle = <<>>
    /\ pc = "call"
    /\ scrolled = FALSE

\* what a call leaves besides the buffer
Called(op, faulted, ch, returned) ==
    /\ pc = "call"
    /\ pc' = "returned"
    /\ harness' = [harness EXCEPT !.op = op, !.faulted = faulted, !.ch = ch,
                                  !.returned = returned]
    /\ UNCHANGED <<needs_render, size, location, scroll_offset, should_quit, lifecycle,
                   scrolled>>

\* self.buffer.insert_newline(location.line_index, None)
InsertNewlineCall ==
    /\ buffer' = insert_newline(buffer, location.line_index, Line_from(<<>>))
    /\ Called("insert_newline", insert_newline_faults(buffer, location.line_index),
              NoChar, <<>>)

\* self.buffer.insert_char(ch, location)
InsertCharCall(ch) ==
    /\ buffer' = insert_char(buffer, ch, location)
    /\ Called("insert_char", FALSE, ch, <<>>)

\* self.buffer.delete(location)
DeleteAtCall ==
    /\ buffer' = delete(buffer, location)
    /\ Called("delete", delete_faults(buffer, location), NoChar, <<>>)

\* what Line::split leaves of the line and what it returns
SplitLeaves(kept_and_returned, faulted) ==
    /\ buffer' = [buffer EXCEPT ![location.line_index + 1] = kept_and_returned[1]]
    /\ Called("split", faulted, NoChar, kept_and_returned[2])

\* self.buffer.lines[location.line_index].split(location.grapheme_index)
SplitCall ==
    /\ location.line_index < Len(buffer)
    /\ SplitLeaves(Line_split(buffer[location.line_index + 1], location.grapheme_index),
                   Line_split_faults(buffer[location.line_index + 1],
                                     location.grapheme_index))

SpecBufferOps ==
    InitBufferOps /\
    [][InsertNewlineCall \/ (\E ch \in InsertedChars : InsertCharCall(ch))
         \/ DeleteAtCall \/ SplitCall]_vars

\* C14: insert_char, insert_newline, delete and Line::split return normally
\* for any line index and grapheme index, in range or not; Line::split with
\* an index greater than the grapheme count returns an empty Line and leaves
\* the line unchanged.
C14_BufferOpsTotal ==
    pc = "returned" =>
        /\ ~harness.faulted
        /\ (harness.op = "split" /\
            location.grapheme_index > Len(harness.before[location.line_index + 1])) =>
               /\ harness.returned = <<>>
               /\ buffer = harness.before

\* Line::split called with an index beyond the end of a non-empty line
C14_Witness ==
    /\ pc = "returned"
    /\ harness.op = "split"
    /\ Len(harness.before[location.line_index + 1]) > 0
    /\ location.grapheme_index > Len(harness.before[location.line_index + 1])
    /\ harness.returned = <<>>

(***************************************************************************)
(* SpecRender: one call of Terminal::render on any dirty flag, viewport    *)
(* size and scroll offset.  harness.rows are the rows it drew, each one a  *)
(* MoveTo(0, y), a Clear(CurrentLine) and a Print(text).                   *)
(***************************************************************************)
\* stands for "{NAME} editor -- version {VERSION}"
BANNER == <<"e", "d">>

\* Terminal::build_welcome_message(width)
build_welcome_message(width) ==
    LET x == saturating_sub(width, Len(BANNER)) \div 2
        spaces == [i \in 1..saturating_sub(x, 1) |-> " "]
        message == <<"~">> \o spaces \o BANNER
    IN  SubSeq(message, 1, IF width < Len(message) THEN width ELSE Len(message))

\* the end of the range of cells of a line that render asks for
right_of(line, left, width) ==
    IF saturating_add(left, width) > graphemes_width(line)
    THEN graphemes_width(line)
    ELSE saturating_add(left, width)

\* the text Terminal::render prints on screen row view_row
row_text(t, view_row) ==
    LET abs_view_row == saturating_add(view_row, t.scroll_offset.line_index)
    IN  IF abs_view_row < Len(t.buffer)
        THEN get_visible_graphemes(t.buffer[abs_view_row + 1],
                 t.scroll_offset.grapheme_index,
                 right_of(t.buffer[abs_view_row + 1], t.scroll_offset.grapheme_index,
                          t.size.width))
        ELSE IF view_row = t.size.height \div 3 /\ line_count(t.buffer) = 0
        THEN build_welcome_message(t.size.width)
        ELSE <<"~">>

\* the rows Terminal::render draws when every write succeeds
render_rows(t) ==
    IF ~t.needs_render \/ t.size.width = 0 THEN <<>>
    ELSE [r \in 1..t.size.height |-> [y |-> r - 1, text |-> row_text(t, r - 1)]]

\* Terminal::render when the write of row fault_row fails (none fails when
\* render draws no such row): the rows before it are drawn, the flag is kept
render_call(t, fault_row) ==
    IF fault_row < Len(render_rows(t))
    THEN [t |-> t, res |-> "Err", rows |-> SubSeq(render_rows(t), 1, fault_row)]
    ELSE [t |-> render(t), res |-> "Ok", rows |-> render_rows(t)]

InitRender ==
    /\ \E content \in FileContents : buffer = Buffer_new(content)
    /\ needs_render \in BOOLEAN
    /\ size \in {Size(w, h) : w \in Coords, h \in Coords}
    /\ scroll_offset \in {Loc(l, g) : l \in 0..1, g \in 0..1}
    /\ location = scroll_offset
    /\ should_quit = FALSE
    /\ lifecycle = <<>>
    /\ pc = "call"
    /\ scrolled = FALSE
    /\ harness = [spec |-> "render"]

Rendered(r) ==
    /\ Store(r.t)
    /\ harness' = [spec |-> "render", pre |-> Self, res |-> r.res, rows |-> r.rows]

RenderCall(fault_row) ==
    /\ pc = "call"
    /\ pc' = "returned"
    /\ \E r \in {render_call(Self, fault_row)} : Rendered(r)
    /\ UNCHANGED <<should_quit, lifecycle>>

SpecRender == InitRender /\ [][\E fault_row \in 0..(MaxCoord + 1) : RenderCall(fault_row)]_vars

\* one row for every screen row r in [0, height), in order
EveryRowDrawn(rows, height) ==
    /\ Len(rows) = height
    /\ \A r \in 1..Len(rows) : rows[r].y = r - 1

\* C15 as claimed: render draws nothing and changes nothing when the dirty
\* flag is clear; when it is set, render (returning without an io::Error)
\* has drawn one row for every screen row in [0, height) and the flag is
\* false, for every viewport size.
C15_Render ==
    pc = "returned" =>
        /\ ~harness.pre.needs_render => (harness.rows = <<>> /\ Self = harness.pre)
        /\ (harness.pre.needs_render /\ harness.res = "Ok") =>
               (EveryRowDrawn(harness.rows, size.height) /\ ~needs_render)

\* C15 as amended: the same for every viewport of width >= 1; with width 0
\* render draws nothing and leaves the flag set.
C15_RenderNonEmptyWidth ==
    pc = "returned" =>
        /\ ~harness.pre.needs_render => (harness.rows = <<>> /\ Self = harness.pre)
        /\ (harness.pre.needs_render /\ harness.res = "Ok" /\ size.width >= 1) =>
               (EveryRowDrawn(harness.rows, size.height) /\ ~needs_render)
        /\ (harness.pre.needs_render /\ size.width = 0) =>
               (harness.rows = <<>> /\ needs_render)

\* a dirty render of a viewport of several rows
C15_Witness ==
    /\ pc = "returned"
    /\ harness.pre.needs_render
    /\ harness.res = "Ok"
    /\ size.width >= 1
    /\ size.height >= 2
    /\ Len(harness.rows) = size.height
    /\ ~needs_render

(***************************************************************************)
(* SpecDecode: one event read by Terminal::evaluate_keypress, filtered and *)
(* handed to TerminalCommand::try_from (view/terminal_command.rs).  An     *)
(* event and a command are records with every field present; a field that *)
(* the variant does not have holds NoChar or 0.                            *)
(***************************************************************************)
KeyEvent(code, c, n, modifiers, kind) ==
    [type |-> "Key", code |-> code, c |-> c, n |-> n, modifiers |-> modifiers,
     kind |-> kind, width |-> 0, height |-> 0]

OtherEvent(type, width, height) ==
    [type |-> type, code |-> "Null", c |-> NoChar, n |-> 0, modifiers |-> {},
     kind |-> "Press", width |-> width, height |-> height]

Command(kind, name, c, n, width, height) ==
    [res |-> "Ok", kind |-> kind, name |-> name, c |-> c, n |-> n,
     width |-> width, height |-> height]

Simple(kind, name) == Command(kind, name, NoChar, 0, 0, 0)

Unsupported == [Simple("None", "None") EXCEPT !.res = "Err"]

\* try_from with the arm of KeyCode::Char(c) tried before the arm of the quit key
try_from_char_first(event) ==
    CASE event.type = "Key" ->
            IF event.code \in Directions THEN Simple("MoveCaret", event.code)
            ELSE IF event.code = "Char"
            THEN Command("OrdinaryChar", "Char", event.c, 0, 0, 0)
            ELSE IF event.code = "F" /\ event.n >= 1 /\ event.n <= 12
            THEN Command("FunctionKey", "F", NoChar, event.n, 0, 0)
            ELSE IF event.code \in SpecialKeys THEN Simple("SpecialKey", event.code)
            ELSE Simple("Unknown", "None")
      [] event.type = "Resize" ->
            Command("Resize", "None", NoChar, 0, event.width, event.height)
      [] OTHER -> Unsupported

\* impl TryFrom<CrossTermEvent> for TerminalCommand
try_from(event) ==
    CASE event.type = "Key" ->
            IF event.code \in Directions THEN Simple("MoveCaret", event.code)
            ELSE IF event.code = "Char" /\ event.c = "q" /\ "CONTROL" \in event.modifiers
            THEN Simple("Quit", "None")
            ELSE IF event.code = "F" /\ event.n >= 1 /\ event.n <= 12
            THEN Command("FunctionKey", "F", NoChar, event.n, 0, 0)
            ELSE IF event.code \in SpecialKeys THEN Simple("SpecialKey", event.code)
            ELSE IF event.code = "Char"
            THEN Command("OrdinaryChar", "Char", event.c, 0, 0, 0)
            ELSE Simple("Unknown", "None")
      [] event.type = "Resize" ->
            Command("Resize", "None", NoChar, 0, event.width, event.height)
      [] OTHER -> Unsupported

\* Terminal::evaluate_keypress: the events that go on to the decoder
should_proceed(event) ==
    \/ event.type = "Key" /\ event.kind = "Press"
    \/ event.type = "Resize"

\* the events read() can return
KeyCodes == Directions \cup SpecialKeys \cup {"Esc", "Null"}
Modifiers == SUBSET {"CONTROL", "SHIFT"}
KeyKinds == {"Press", "Release"}

Events ==
    {KeyEvent(code, NoChar, 0, m, k) : code \in KeyCodes, m \in Modifiers, k \in KeyKinds}
    \cup {KeyEvent("Char", c, 0, m, k) : c \in {"q", "Q", "a"}, m \in Modifiers, k \in KeyKinds}
    \cup {KeyEvent("F", NoChar, n, m, k) : n \in {0, 1, 12, 13}, m \in Modifiers, k \in KeyKinds}
    \cup {OtherEvent("Resize", w, h) : w \in 0..1, h \in 0..1}
    \cup {OtherEvent(type, 0, 0) : type \in {"Mouse", "FocusGained", "Paste"}}

InitDecode ==
    /\ buffer = <<>>
    /\ needs_render = FALSE
    /\ size = Size(0, 0)
    /\ location = Loc(0, 0)
    /\ scroll_offset = Loc(0, 0)
    /\ should_quit = FALSE
    /\ lifecycle = <<>>
    /\ pc = "read"
    /\ scrolled = FALSE
    /\ \E event \in Events :
           harness = [spec |-> "decode", event |-> event, command |-> Unsupported]

\* if !should_proceed { return Ok(()) }
Filtered ==
    /\ pc = "read"
    /\ ~should_proceed(harness.event)
    /\ pc' = "dropped"
    /\ UNCHANGED <<buffer, needs_render, size, location, scroll_offset, should_quit,
                   lifecycle, scrolled, harness>>

\* TerminalCommand::try_from(event)
Decode ==
    /\ pc = "read"
    /\ should_proceed(harness.event)
    /\ pc' = "decoded"
    /\ harness' = [harness EXCEPT !.command = try_from(harness.event)]
    /\ UNCHANGED <<buffer, needs_render, size, location, scroll_offset, should_quit,
                   lifecycle, scrolled>>

SpecDecode == InitDecode /\ [][Filtered \/ Decode]_vars

IsQuitKey(event) ==
    event.code = "Char" /\ event.c = "q" /\ "CONTROL" \in event.modifiers

\* C16: every event that reaches the decoder is classified: control-modified
\* 'q' is Quit, any other character key OrdinaryChar, the arrow, Home, End,
\* PageUp and PageDown keys the matching MoveCaret, Backspace, Delete, Enter,
\* Tab, BackTab, Insert and CapsLock the matching SpecialKey, F(n) is
\* FunctionKey(n) exactly when 1 <= n <= 12, a resize event is
\* Resize(width, height), and every other key is Unknown.
C16_Decoder ==
    pc = "decoded" =>
        /\ harness.command.res = "Ok"
        /\ harness.event.type = "Resize" =>
               /\ harness.command.kind = "Resize"
               /\ harness.command.width = harness.event.width
               /\ harness.command.height = harness.event.height
        /\ harness.event.type = "Key" =>
               /\ IsQuitKey(harness.event) <=> harness.command.kind = "Quit"
               /\ (harness.event.code = "Char" /\ ~IsQuitKey(harness.event)) =>
                      /\ harness.command.kind = "OrdinaryChar"
                      /\ harness.command.c = harness.event.c
               /\ harness.event.code \in Directions =>
                      /\ harness.command.kind = "MoveCaret"
                      /\ harness.command.name = harness.event.code
               /\ harness.event.code \in SpecialKeys =>
                      /\ harness.command.kind = "SpecialKey"
                      /\ harness.command.name = harness.event.code
               /\ harness.event.code = "F" =>
                      /\ harness.command.kind = "FunctionKey"
                             <=> (harness.event.n >= 1 /\ harness.event.n <= 12)
                      /\ harness.command.kind = "FunctionKey" =>
                             harness.command.n = harness.event.n
                      /\ harness.command.kind \in {"FunctionKey", "Unknown"}
               /\ harness.event.code \in {"Esc", "Null"} =>
                      harness.command.kind = "Unknown"

\* the quit key pressed together with Shift
C16_Witness ==
    /\ pc = "decoded"
    /\ IsQuitKey(harness.event)
    /\ "SHIFT" \in harness.event.modifiers
    /\ harness.command.kind = "Quit"

(***************************************************************************)
(* Properties of Buffer::insert_char and Buffer::delete (SpecBufferOps).   *)
(***************************************************************************)
\* the text of the units from..to of a line, counted from 1
UnitsText(line, from, to) == LineText(SubSeq(line, from, to))

\* lines i of after and j of before are the same
SameLine(after, i, before, j) == after[i] = before[j]

\* C19: insert_char(ch, L) appends a Line holding only ch when L.line_index
\* is line_count and changes no line; leaves the Buffer unchanged when
\* L.line_index exceeds line_count; and when L.line_index < line_count and
\* L.grapheme_index <= the line's grapheme count, the line's text is the old
\* text with ch spliced in at grapheme position L.grapheme_index, every other
\* line and the line count unchanged.
C19_InsertChar ==
    (pc = "returned" /\ harness.op = "insert_char") =>
        /\ location.line_index = Len(harness.before) =>
               buffer = Append(harness.before, Line_from(<<harness.ch>>))
        /\ location.line_index > Len(harness.before) => buffer = harness.before
        /\ ( /\ location.line_index < Len(harness.before)
             /\ location.grapheme_index <= Len(harness.before[location.line_index + 1]) ) =>
               /\ Len(buffer) = Len(harness.before)
               /\ \A i \in 1..Len(buffer) :
                      IF i = location.line_index + 1
                      THEN LineText(buffer[i]) =
                               UnitsText(harness.before[i], 1, location.grapheme_index)
                               \o <<harness.ch>>
                               \o UnitsText(harness.before[i], location.grapheme_index + 1,
                                            Len(harness.before[i]))
                      ELSE SameLine(buffer, i, harness.before, i)

\* a character spliced in between two units of the second line
C19_Witness ==
    /\ pc = "returned"
    /\ harness.op = "insert_char"
    /\ location = Loc(1, 1)
    /\ Len(harness.before) = 2
    /\ Len(harness.before[2]) = 2
    /\ Len(LineText(buffer[2])) = Len(LineText(harness.before[2])) + 1

\* the line becomes its old text followed by the next line's, the next line is removed
MergedWithNext(after, before, l) ==
    /\ Len(after) = Len(before) - 1
    /\ LineText(after[l + 1]) = LineText(before[l + 1]) \o LineText(before[l + 2])
    /\ \A i \in 1..Len(after) :
           /\ i < l + 1 => SameLine(after, i, before, i)
           /\ i > l + 1 => SameLine(after, i, before, i + 1)

\* exactly the unit at g is removed from line l
UnitRemoved(after, before, l, g) ==
    /\ Len(after) = Len(before)
    /\ LineText(after[l + 1]) =
           UnitsText(before[l + 1], 1, g) \o UnitsText(before[l + 1], g + 2, Len(before[l + 1]))
    /\ \A i \in 1..Len(after) : i # l + 1 => SameLine(after, i, before, i)

Min(a, b) == IF a < b THEN a ELSE b

\* the caret is on line l of the buffer at a grapheme index within the line
\* or at its end
CaretOnLine ==
    /\ location.line_index < Len(buffer)
    /\ location.grapheme_index <= Len(buffer[location.line_index + 1])

\* the line the caret is on
CaretLine == buffer[location.line_index + 1]

\* C21: Enter with the caret at (l, g) on an existing line splits the line:
\* afterwards line l holds the first g grapheme units, a new line l+1 holds
\* the tail, the line count has grown by one and the concatenation of all
\* lines' text is unchanged; with the addressed line index past the last line
\* the new Line is appended at the end.
C21_EnterSplits ==
    [][ /\ (CaretOnLine /\ SpecialKey("Enter")) =>
              /\ Len(buffer') = Len(buffer) + 1
              /\ LineText(buffer'[location.line_index + 1])
                     = UnitsText(CaretLine, 1, location.grapheme_index)
              /\ LineText(buffer'[location.line_index + 2])
                     = UnitsText(CaretLine, location.grapheme_index + 1, Len(CaretLine))
              /\ Concat(Texts(buffer')) = Concat(Texts(buffer))
        /\ (location.line_index >= Len(buffer) /\ SpecialKey("Enter")) =>
              /\ Len(buffer') = Len(buffer) + 1
              /\ SubSeq(buffer', 1, Len(buffer)) = buffer
      ]_vars

\* C22: after Enter with the caret at (l, g), g in 0..grapheme count of line
\* l, the caret is at the start of the new line, Location (l+1, 0).
C22_CaretAfterEnter ==
    [][ (CaretOnLine /\ SpecialKey("Enter")) =>
            location' = Loc(location.line_index + 1, 0) ]_vars

\* C23: after OrdinaryChar(ch) with the caret at (l, g), g <= grapheme count
\* of line l, whenever the line's grapheme count grew the caret is at
\* (l, g+1), at the end-of-line position included, with or without a
\* following line.
C23_CaretAfterTyping ==
    [][ \A c \in TypedChars :
          ( /\ CaretOnLine
            /\ OrdinaryChar(c)
            /\ Len(buffer'[location.line_index + 1]) > Len(CaretLine) ) =>
              location' = Loc(location.line_index, location.grapheme_index + 1) ]_vars

\* C24: Backspace with the caret at (l, g): with g > 0 the unit at index g-1
\* of line l is removed and the caret becomes (l, g-1); with g = 0 and l > 0
\* line l-1 becomes its old content followed by line l's content, line l is
\* removed and the caret becomes (l-1, former grapheme count of line l-1);
\* at (0, 0) Buffer and caret are unchanged.
C24_Backspace ==
    [][ /\ (CaretOnLine /\ location.grapheme_index > 0 /\ SpecialKey("Backspace")) =>
              /\ buffer' = [buffer EXCEPT ![location.line_index + 1] =
                                RemoveAt(@, location.grapheme_index)]
              /\ location' = Loc(location.line_index, location.grapheme_index - 1)
        /\ ( /\ CaretOnLine /\ location.grapheme_index = 0 /\ location.line_index > 0
             /\ SpecialKey("Backspace") ) =>
              /\ buffer' = RemoveAt([buffer EXCEPT ![location.line_index] = @ \o CaretLine],
                                    location.line_index + 1)
              /\ location' = Loc(location.line_index - 1, Len(buffer[location.line_index]))
        /\ (location = Loc(0, 0) /\ SpecialKey("Backspace")) =>
              /\ buffer' = buffer
              /\ location' = location
      ]_vars

\* C26: CaretMove(Left) from (l, g) with g > 0 gives (l, g-1), and from
\* (l, 0) with l > 0 gives (l-1, grapheme count of line l-1);
\* CaretMove(Right) from (l, g) with g < grapheme count of line l gives
\* (l, g+1), and from the end of line l with a line l+1 present gives (l+1, 0).
C26_LeftRight ==
    [][ /\ (CaretOnLine /\ location.grapheme_index > 0 /\ MoveCaret("Left")) =>
              location' = Loc(location.line_index, location.grapheme_index - 1)
        /\ ( /\ CaretOnLine /\ location.grapheme_index = 0 /\ location.line_index > 0
             /\ MoveCaret("Left") ) =>
              location' = Loc(location.line_index - 1, Len(buffer[location.line_index]))
        /\ ( /\ CaretOnLine /\ location.grapheme_index < Len(CaretLine)
             /\ MoveCaret("Right") ) =>
              location' = Loc(location.line_index, location.grapheme_index + 1)
        /\ ( /\ CaretOnLine /\ location.grapheme_index = Len(CaretLine)
             /\ location.line_index + 1 < Len(buffer)
             /\ MoveCaret("Right") ) =>
              location' = Loc(location.line_index + 1, 0)
      ]_vars

\* C27: CaretMove(PageDown) from row r with viewport height h sets the caret
\* line index to min(r + h, line_count - 1), and CaretMove(PageUp) sets it to
\* max(r - h, 0); the resulting line index is always a valid line of the
\* Buffer.
C27_PageMoves ==
    [][ /\ MoveCaret("PageDown") =>
              /\ location'.line_index
                     = Min(location.line_index + size.height, line_count(buffer) - 1)
              /\ location'.line_index < line_count(buffer')
        /\ MoveCaret("PageUp") =>
              /\ location'.line_index = Max(location.line_index - size.height, 0)
              /\ location'.line_index < line_count(buffer')
      ]_vars

\* C30: after any command that changes the Buffer's content or the viewport
\* size or the scroll offset, the dirty flag is set when the handler returns.
C30_DirtyAfterChange ==
    [][ ( /\ pc = "read"
          /\ pc' \in {"refresh", "failed"}
          /\ \/ buffer' # buffer
             \/ size' # size
             \/ scroll_offset' # scroll_offset ) => needs_render' ]_vars

(***************************************************************************)
(* SpecCaret: one call of Terminal::move_caret_to_location from a caret on *)
(* a line of the buffer, at a column within the line's rendered width;     *)
(* harness records the direction, and the caret and the lines before the   *)
(* call.                                                                   *)
(***************************************************************************)
CaretTexts == {<<>>, <<"a">>, <<"a", "b">>, <<WIDE>>}

CaretBuffers ==
    UNION {[1..n -> {Line_from(text) : text \in CaretTexts}] : n \in 0..MaxCaretLines}

\* the carets the moves leave behind: a line of the buffer and a column up to
\* its rendered width; {0,0} in a buffer without lines
CaretsIn(lines) ==
    IF Len(lines) = 0 THEN {Loc(0, 0)}
    ELSE UNION {{Loc(l, g) : g \in 0..graphemes_width(lines[l + 1])} :
                    l \in 0..(Len(lines) - 1)}

InitCaret ==
    /\ buffer \in CaretBuffers
    /\ location \in CaretsIn(buffer)
    /\ size \in {Size(1, h) : h \in 0..MaxCaretHeight}
    /\ needs_render = FALSE
    /\ scroll_offset = Loc(0, 0)
    /\ should_quit = FALSE
    /\ lifecycle = <<>>
    /\ pc = "call"
    /\ scrolled = FALSE
    /\ harness = [spec |-> "caret", direction |-> "none", before |-> location,
                  lines |-> buffer]

\* what the call leaves: the terminal, and whether it returned
Moved(r) ==
    /\ Store(r.t)
    /\ pc' = IF r.res = "Panic" THEN "panicked" ELSE "returned"

CaretCall(direction) ==
    /\ pc = "call"
    /\ \E flush_ok \in BOOLEAN, overflow_panics \in OverflowOutcomes(direction) :
           \E r \in {move_caret_to_location(Self, direction, flush_ok, overflow_panics)} :
               Moved(r)
    /\ harness' = [harness EXCEPT !.direction = direction, !.before = location,
                                  !.lines = buffer]
    /\ UNCHANGED <<should_quit, lifecycle>>

SpecCaret == InitCaret /\ [][\E direction \in Directions : CaretCall(direction)]_vars

\* the call of the harness was a move in direction and has returned
Went(direction) == pc = "returned" /\ harness.direction = direction

\* C25: CaretMove(Up) from row r > 0 sets the caret line to r-1 and
\* CaretMove(Down) from row r < line_count-1 sets it to r+1, and in both
\* cases the grapheme index becomes min(old grapheme index, rendered width of
\* the destination line); Up at row 0 and Down at the last line leave the
\* caret Location unchanged.
C25_UpDown ==
    /\ (Went("Up") /\ harness.before.line_index > 0) =>
           location = Loc(harness.before.line_index - 1,
                          Min(harness.before.grapheme_index,
                              graphemes_width(buffer[harness.before.line_index])))
    /\ (Went("Down") /\ harness.before.line_index < line_count(buffer) - 1) =>
           location = Loc(harness.before.line_index + 1,
                          Min(harness.before.grapheme_index,
                              graphemes_width(buffer[harness.before.line_index + 2])))
    /\ (Went("Up") /\ harness.before.line_index = 0) => location = harness.before
    /\ (Went("Down") /\ harness.before.line_index >= line_count(buffer) - 1) =>
           location = harness.before

\* Up from column 2 of a wide character's line onto the line "a": the column
\* is clamped to the rendered width 1
C25_Witness ==
    /\ Went("Up")
    /\ Len(buffer) >= 2
    /\ buffer[1] = Line_from(<<"a">>)
    /\ buffer[2] = Line_from(<<WIDE>>)
    /\ harness.before = Loc(1, 2)
    /\ location = Loc(0, 1)

\* C28: CaretMove(Home) sets the caret grapheme index to 0 and CaretMove(End)
\* sets it to grapheme count - 1 for every non-empty current line; both
\* leave the caret line index and the Buffer unchanged.
C28_HomeEnd ==
    /\ Went("Home") => location = Loc(harness.before.line_index, 0)
    /\ ( /\ Went("End")
         /\ harness.before.line_index < Len(buffer)
         /\ Len(buffer[harness.before.line_index + 1]) > 0 ) =>
           location = Loc(harness.before.line_index,
                          grapheme_count(buffer[harness.before.line_index + 1]) - 1)
    /\ (Went("Home") \/ Went("End")) =>
           /\ location.line_index = harness.before.line_index
           /\ buffer = harness.lines

\* End from the start of the line "ab"
C28_Witness ==
    /\ Went("End")
    /\ buffer = <<Line_from(<<"a", "b">>)>>
    /\ harness.before = Loc(0, 0)
    /\ location = Loc(0, 1)

(***************************************************************************)
(* SpecWindow: one call of Line::get_visible_graphemes on a Line of narrow *)
(* and wide units with a cell window [start, end).                         *)
(***************************************************************************)
InitWindow ==
    /\ \E text \in TextsOver({"a", WIDE}), start \in 0..MaxWindow, end \in 0..MaxWindow :
           harness = [spec |-> "window", stage |-> "line", line |-> Line_from(text),
                      start |-> start, end |-> end, rendered |-> <<>>]
    /\ buffer = <<>>
    /\ needs_render = TRUE
    /\ size = Size(0, 0)
    /\ location = Loc(0, 0)
    /\ scroll_offset = Loc(0, 0)
    /\ should_quit = FALSE
    /\ lifecycle = <<>>
    /\ pc = "call"
    /\ scrolled = FALSE

WindowCall ==
    /\ harness.stage = "line"
    /\ harness' = [harness EXCEPT
                       !.stage = "rendered",
                       !.rendered = get_visible_graphemes(harness.line, harness.start,
                                                          harness.end)]
    /\ UNCHANGED <<buffer, needs_render, size, location, scroll_offset, should_quit, pc,
                   lifecycle, scrolled>>

SpecWindow == InitWindow /\ [][WindowCall]_vars

\* the first cell of unit i of a line, and the cell after its last
UnitStart(line, i) == graphemes_width(SubSeq(line, 1, i - 1))
UnitEnd(line, i) == UnitStart(line, i) + Cells(line[i].rendered_width)

\* what the window shows of unit i: its glyph when its cells lie entirely
\* inside, an ellipsis when they lie partially inside, nothing otherwise
Shown(line, i, start, end) ==
    IF UnitStart(line, i) >= start /\ UnitEnd(line, i) <= end THEN Glyph(line[i])
    ELSE IF UnitEnd(line, i) > start /\ UnitStart(line, i) < end THEN <<ELLIPSIS>>
    ELSE <<>>

\* C29: for a Line and a cell window [start, end), get_visible_graphemes
\* emits, in document order, the rendered glyph of every unit whose cells lie
\* entirely inside the window, a single ellipsis for every unit only
\* partially inside the window, and nothing for a unit entirely outside.
C29_VisibleGraphemes ==
    harness.stage = "rendered" =>
        harness.rendered =
            Concat([i \in 1..Len(harness.line) |->
                       Shown(harness.line, i, harness.start, harness.end)])

(***************************************************************************)
(* The width of the rows drawn by Terminal::render (SpecRender).           *)
(***************************************************************************)
\* row r of the rows drawn shows a line of the document
DocumentRow(r) ==
    harness.rows[r].y + harness.pre.scroll_offset.line_index < Len(harness.pre.buffer)

\* C31: for every document line drawn by render with viewport width w >= 1
\* and any column scroll offset, the text printed for that row occupies at
\* most w terminal cells, an ellipsis counting as one cell.
C31_RowFits ==
    (pc = "returned" /\ harness.pre.size.width >= 1) =>
        \A r \in 1..Len(harness.rows) :
            DocumentRow(r) => unicode_width(harness.rows[r].text) <= harness.pre.size.width

(***************************************************************************)
(* The end of a session by the Quit command (Spec).                        *)
(***************************************************************************)
\* C32: once the Quit command has been decoded and terminate has been
\* called, the session loop performs no further refresh: no hide-caret,
\* render, move-caret or show-caret instruction is sent to the terminal after
\* the first terminate call.
C32_NoRefreshAfterTerminate == [][TerminateCalls >= 1 => ~Refresh]_vars
====
